---- MODULE Spec2Model ----
(***************************************************************************)
(* Model of binrw_derive/src/parser/meta_types.rs: the generic attribute   *)
(* grammar nodes MetaVoid, MetaValue, MetaList, MetaEnclosedList,          *)
(* IdentPatType, IdentTypeMaybeDefault and MetaAttrList, parsed from a     *)
(* token stream through syn's ParseStream cursor.                          *)
(*                                                                         *)
(* A token tree is a record [k, s, ts, span]:                              *)
(*   k    "ident" | "lit" | "punct" | "group"                              *)
(*   s    the identifier, the literal's text, the punctuation character,   *)
(*        or the group's delimiter ("paren", "brace", "bracket")           *)
(*   ts   the tokens inside a group (<<>> for the other kinds)             *)
(*   span the source position of the token                                 *)
(* A parse returns [ok, val, err, pos, unexp]: the node or the error, the  *)
(* cursor position it leaves, and the span a dropped, not fully consumed   *)
(* group buffer recorded as unexpected (<<>> when none).                   *)
(***************************************************************************)
EXTENDS Integers, Sequences, FiniteSets, TLC

\* Longest token sequence inside a group.
MaxInner == 4
\* Longest token sequence without groups.
MaxFlat == 5
\* Source positions at which the first token of the input may lie: 1..MaxOrigin.
MaxOrigin == 2
\* Most to_tokens calls on one node.
MaxEmit == 2

\* Span::call_site(), the scope of the top-level buffer syn::parse2 builds.
CallSite == 0

VARIABLES input, op, kw, gram, res, out, tokens, emits, kspan, conv

vars == <<input, op, kw, gram, res, out, tokens, emits, kspan, conv>>

-----------------------------------------------------------------------------
(* Tokens and the inputs the parsers are run on *)

Tok(k, s, ts, span) == [k |-> k, s |-> s, ts |-> ts, span |-> span]

\* The tokens of a quote!{...} without positions: [k, s, ts].
Shape(k, s, ts) == [k |-> k, s |-> s, ts |-> ts]

Lit1 == Shape("lit", "1u8", <<>>)
Lit2 == Shape("lit", "2u8", <<>>)
IdTest == Shape("ident", "test", <<>>)
IdFoo == Shape("ident", "foo", <<>>)
IdI32 == Shape("ident", "i32", <<>>)
Comma == Shape("punct", ",", <<>>)
Eq == Shape("punct", "=", <<>>)
Colon == Shape("punct", ":", <<>>)

SeqsUpTo(S, n) == UNION {[1..m -> S] : m \in 0..n}

InnerAlphabet == {Lit1, Lit2, IdI32, Comma}
KeywordAlphabet == {IdTest, IdFoo, Lit1, Eq}
FieldAlphabet == {IdFoo, Lit1, Eq, Colon}
Delimiters == {"paren", "brace", "bracket"}

InnerShapes == SeqsUpTo(InnerAlphabet, MaxInner)
GroupShapes == {Shape("group", d, ts) : d \in Delimiters, ts \in InnerShapes}
Prefixes == {<<>>, <<IdTest>>, <<IdFoo>>, <<IdTest, Eq>>}

\* K(..), K{..}, K[..], (..), wrong(..), K = (..)
GroupInputs == {p \o <<g>> : p \in Prefixes, g \in GroupShapes}
\* K, K = V, K = V V, = V, wrong = V, ...
KeywordInputs == SeqsUpTo(KeywordAlphabet, MaxFlat - 1)
\* name: Type, name: Type = expr, name: Type =, name Type, : Type, ...
FieldInputs == SeqsUpTo(FieldAlphabet, MaxFlat)

Size(sh) == 1 + Len(sh.ts)

RECURSIVE Offset(_, _)
Offset(shapes, i) == IF i = 1 THEN 0 ELSE Offset(shapes, i - 1) + Size(shapes[i - 1])

\* The token stream of `shapes` when its first token lies at position `origin`.
Stamp(shapes, origin) ==
    [i \in 1..Len(shapes) |->
        LET at == origin + Offset(shapes, i)
            sh == shapes[i]
        IN Tok(sh.k, sh.s,
               [j \in 1..Len(sh.ts) |-> Tok(sh.ts[j].k, sh.ts[j].s, <<>>, at + j)],
               at)]

Origins == 1..MaxOrigin

\* A token stream without its positions.
Unstamp(ts) ==
    [i \in 1..Len(ts) |->
        Shape(ts[i].k, ts[i].s,
              [j \in 1..Len(ts[i].ts) |-> Shape(ts[i].ts[j].k, ts[i].ts[j].s, <<>>)])]

-----------------------------------------------------------------------------
(* syn: results, errors, cursor primitives *)

NoVal == [kind |-> "none"]
NoErr == [msg |-> "", what |-> "", span |-> CallSite, eoi |-> FALSE]
NoSpan == <<>>

Ok(v, p, u) == [ok |-> TRUE, val |-> v, err |-> NoErr, pos |-> p, unexp |-> u]
Fail(e, p, u) == [ok |-> FALSE, val |-> NoVal, err |-> e, pos |-> p, unexp |-> u]

AtEnd(ts, pos) == pos > Len(ts)

\* syn::parse::ParseBuffer::error / error_at: the error lies at the cursor's
\* token, or at the buffer's scope when the buffer is exhausted.
ErrorAt(ts, pos, scope, msg, what) ==
    IF AtEnd(ts, pos)
    THEN [msg |-> msg, what |-> what, span |-> scope, eoi |-> TRUE]
    ELSE [msg |-> msg, what |-> what, span |-> ts[pos].span, eoi |-> FALSE]

PeekGroup(d, ts, pos) == ~AtEnd(ts, pos) /\ ts[pos].k = "group" /\ ts[pos].s = d
PeekPunct(ch, ts, pos) == ~AtEnd(ts, pos) /\ ts[pos].k = "punct" /\ ts[pos].s = ch

GroupName(d) == IF d = "paren" THEN "parentheses" ELSE "curly braces"

\* Drop for ParseBuffer: tokens left in a group's buffer when it goes out of
\* scope are recorded as unexpected, unless something already is.
DropBuffer(ts, pos, unexp) ==
    IF unexp = NoSpan /\ ~AtEnd(ts, pos) THEN <<ts[pos].span>> ELSE unexp

-----------------------------------------------------------------------------
(* The payload grammars the nodes are instantiated with (syn) *)

\* syn::custom_keyword!: the next token is the identifier `k`.
ParseKeyword(k, ts, pos, scope) ==
    IF ~AtEnd(ts, pos) /\ ts[pos].k = "ident" /\ ts[pos].s = k
    THEN Ok([kind |-> "Keyword", name |-> k, span |-> ts[pos].span], pos + 1, NoSpan)
    ELSE Fail(ErrorAt(ts, pos, scope, "expected", k), pos, NoSpan)

\* Token![ch]
ParsePunct(ch, ts, pos, scope) ==
    IF PeekPunct(ch, ts, pos)
    THEN Ok([kind |-> "Punct", ch |-> ch, span |-> ts[pos].span], pos + 1, NoSpan)
    ELSE Fail(ErrorAt(ts, pos, scope, "expected", ch), pos, NoSpan)

\* syn::Lit on the tokens of the inputs (no `-`, `true` or `false` among
\* them): a literal token.
ParseLit(ts, pos, scope) ==
    IF ~AtEnd(ts, pos) /\ ts[pos].k = "lit"
    THEN Ok([kind |-> "Lit", repr |-> ts[pos].s, span |-> ts[pos].span], pos + 1, NoSpan)
    ELSE Fail(ErrorAt(ts, pos, scope, "expected", "literal"), pos, NoSpan)

\* syn::Ident on the tokens of the inputs (no reserved word among them): an
\* identifier token.
ParseIdent(ts, pos, scope) ==
    IF ~AtEnd(ts, pos) /\ ts[pos].k = "ident"
    THEN Ok([kind |-> "Ident", name |-> ts[pos].s, span |-> ts[pos].span], pos + 1, NoSpan)
    ELSE Fail(ErrorAt(ts, pos, scope, "expected", "identifier"), pos, NoSpan)

\* syn::Type on the tokens of the inputs (no `::`, `<`, `!`, `+` or group
\* where a type is read): a path of one segment.
ParseType(ts, pos, scope) ==
    IF ~AtEnd(ts, pos) /\ ts[pos].k = "ident"
    THEN Ok([kind |-> "Type::Path", name |-> ts[pos].s, span |-> ts[pos].span], pos + 1, NoSpan)
    ELSE Fail(ErrorAt(ts, pos, scope, "expected", "type"), pos, NoSpan)

\* syn::Expr, unary_expr on the tokens of the inputs (no operator or group
\* where an expression is read): a literal or a path.
ParseAtom(ts, pos, scope) ==
    IF ~AtEnd(ts, pos) /\ ts[pos].k = "lit"
    THEN Ok([kind |-> "Expr::Lit", repr |-> ts[pos].s, span |-> ts[pos].span], pos + 1, NoSpan)
    ELSE IF ~AtEnd(ts, pos) /\ ts[pos].k = "ident"
    THEN Ok([kind |-> "Expr::Path", name |-> ts[pos].s, span |-> ts[pos].span], pos + 1, NoSpan)
    ELSE Fail(ErrorAt(ts, pos, scope, "expected", "expression"), pos, NoSpan)

\* syn::Expr, the loop of parse_expr: `lhs = expr` (right associative) and
\* the type ascription `lhs: Type`.
RECURSIVE ParseExprRest(_, _, _, _)
ParseExprRest(lhs, ts, pos, scope) ==
    IF PeekPunct("=", ts, pos)
    THEN LET a == ParseAtom(ts, pos + 1, scope)
             r == ParseExprRest(a.val, ts, a.pos, scope)
         IN IF ~a.ok THEN a
            ELSE IF ~r.ok THEN r
            ELSE ParseExprRest([kind |-> "Expr::Assign", left |-> lhs,
                                eq |-> ts[pos].span, right |-> r.val],
                               ts, r.pos, scope)
    ELSE IF PeekPunct(":", ts, pos)
    THEN LET t == ParseType(ts, pos + 1, scope)
         IN IF ~t.ok THEN t
            ELSE ParseExprRest([kind |-> "Expr::Type", expr |-> lhs,
                                colon |-> ts[pos].span, ty |-> t.val],
                               ts, t.pos, scope)
    ELSE Ok(lhs, pos, NoSpan)

ParseExpr(ts, pos, scope) ==
    LET a == ParseAtom(ts, pos, scope)
    IN IF ~a.ok THEN a ELSE ParseExprRest(a.val, ts, a.pos, scope)

\* <Value as Parse>::parse / ItemType::parse for the grammar named g.
ParseGrammar(g, ts, pos, scope) ==
    CASE g = "Lit" -> ParseLit(ts, pos, scope)
      [] g = "Ident" -> ParseIdent(ts, pos, scope)

\* <Value as ToTokens>::to_tokens: the tokens of a payload node.
PayloadTokens(node) ==
    CASE node.kind = "Lit" -> <<Tok("lit", node.repr, <<>>, node.span)>>
      [] node.kind = "Ident" -> <<Tok("ident", node.name, <<>>, node.span)>>

\* parenthesized! / braced!: the next token is a group with delimiter d.
ParseGroup(d, ts, pos, scope) ==
    IF PeekGroup(d, ts, pos)
    THEN Ok(ts[pos], pos + 1, NoSpan)
    ELSE Fail(ErrorAt(ts, pos, scope, "expected", GroupName(d)), pos, NoSpan)

\* parse_terminated losing each item that a comma follows.
RECURSIVE ParseTerminated_LosesPairs(_, _, _, _, _)
ParseTerminated_LosesPairs(g, ts, pos, scope, inner) ==
    IF AtEnd(ts, pos) THEN Ok([inner |-> inner, last |-> <<>>], pos, NoSpan)
    ELSE LET v == ParseGrammar(g, ts, pos, scope)
             c == ParsePunct(",", ts, v.pos, scope)
         IN IF ~v.ok THEN Fail(v.err, v.pos, NoSpan)
            ELSE IF AtEnd(ts, v.pos)
            THEN Ok([inner |-> inner, last |-> <<v.val>>], v.pos, NoSpan)
            ELSE IF ~c.ok THEN Fail(c.err, c.pos, NoSpan)
            ELSE ParseTerminated_LosesPairs(g, ts, c.pos, scope, inner)

\* parse_terminated demanding an item after every comma.
RECURSIVE ParseTerminated_NoTrailing(_, _, _, _, _)
ParseTerminated_NoTrailing(g, ts, pos, scope, inner) ==
    IF AtEnd(ts, pos) /\ pos = 1 THEN Ok([inner |-> inner, last |-> <<>>], pos, NoSpan)
    ELSE LET v == ParseGrammar(g, ts, pos, scope)
             c == ParsePunct(",", ts, v.pos, scope)
         IN IF ~v.ok THEN Fail(v.err, v.pos, NoSpan)
            ELSE IF AtEnd(ts, v.pos)
            THEN Ok([inner |-> inner, last |-> <<v.val>>], v.pos, NoSpan)
            ELSE IF ~c.ok THEN Fail(c.err, c.pos, NoSpan)
            ELSE ParseTerminated_NoTrailing(g, ts, c.pos, scope, Append(inner, <<v.val, c.val>>))

\* ParseBuffer::parse_terminated::<_, Token![,]>(parser) from `pos`, with the
\* (item, comma) pairs read so far in `inner`.
RECURSIVE ParseTerminated(_, _, _, _, _)
ParseTerminated(g, ts, pos, scope, inner) ==
    IF AtEnd(ts, pos) THEN Ok([inner |-> inner, last |-> <<>>], pos, NoSpan)
    ELSE LET v == ParseGrammar(g, ts, pos, scope)
             c == ParsePunct(",", ts, v.pos, scope)
         IN IF ~v.ok THEN Fail(v.err, v.pos, NoSpan)
            ELSE IF AtEnd(ts, v.pos)
            THEN Ok([inner |-> inner, last |-> <<v.val>>], v.pos, NoSpan)
            ELSE IF ~c.ok THEN Fail(c.err, c.pos, NoSpan)
            ELSE ParseTerminated(g, ts, c.pos, scope, Append(inner, <<v.val, c.val>>))

\* Punctuated::into_iter: the items without their commas.
Fields_into_iter(fields) ==
    [i \in 1..Len(fields.inner) |-> fields.inner[i][1]] \o fields.last

-----------------------------------------------------------------------------
(* The grammar nodes of meta_types.rs *)

\* impl Parse for MetaVoid<Keyword>
MetaVoid_parse(k, ts, pos, scope) ==
    LET ident == ParseKeyword(k, ts, pos, scope)
    IN IF ~ident.ok THEN Fail(ident.err, ident.pos, NoSpan)
       ELSE Ok([ident |-> ident.val], ident.pos, NoSpan)

\* MetaValue::parse without its parenthesized arm: only `K = V` is read.
MetaValue_parse_AssignOnly(k, g, ts, pos, scope) ==
    LET ident == ParseKeyword(k, ts, pos, scope)
        eq == ParsePunct("=", ts, ident.pos, scope)
        value == ParseGrammar(g, ts, eq.pos, scope)
    IN IF ~ident.ok THEN Fail(ident.err, ident.pos, NoSpan)
       ELSE IF ~eq.ok THEN Fail(eq.err, eq.pos, NoSpan)
       ELSE IF ~value.ok THEN Fail(value.err, value.pos, NoSpan)
       ELSE Ok([ident |-> ident.val, value |-> value.val], value.pos, NoSpan)

\* MetaValue::parse reading the rest of the parenthesized group away after
\* the payload, so that nothing is left in the group's buffer.
MetaValue_parse_DropRest(k, g, ts, pos, scope) ==
    LET ident == ParseKeyword(k, ts, pos, scope)
    IN IF ~ident.ok THEN Fail(ident.err, ident.pos, NoSpan)
       ELSE IF PeekGroup("paren", ts, ident.pos)
       THEN LET content == ts[ident.pos]
                value == ParseGrammar(g, content.ts, 1, content.span)
            IN IF ~value.ok THEN Fail(value.err, ident.pos + 1, NoSpan)
               ELSE Ok([ident |-> ident.val, value |-> value.val], ident.pos + 1, NoSpan)
       ELSE LET eq == ParsePunct("=", ts, ident.pos, scope)
                value == ParseGrammar(g, ts, eq.pos, scope)
            IN IF ~eq.ok THEN Fail(eq.err, eq.pos, NoSpan)
               ELSE IF ~value.ok THEN Fail(value.err, value.pos, NoSpan)
               ELSE Ok([ident |-> ident.val, value |-> value.val], value.pos, NoSpan)

\* impl Parse for MetaValue<Keyword, Value>, Value the grammar named g
MetaValue_parse(k, g, ts, pos, scope) ==
    LET ident == ParseKeyword(k, ts, pos, scope)
    IN IF ~ident.ok THEN Fail(ident.err, ident.pos, NoSpan)
       ELSE IF PeekGroup("paren", ts, ident.pos)
       THEN LET content == ts[ident.pos]
                value == ParseGrammar(g, content.ts, 1, content.span)
                unexp == DropBuffer(content.ts, value.pos, NoSpan)
            IN IF ~value.ok THEN Fail(value.err, ident.pos + 1, unexp)
               ELSE Ok([ident |-> ident.val, value |-> value.val], ident.pos + 1, unexp)
       ELSE LET eq == ParsePunct("=", ts, ident.pos, scope)
                value == ParseGrammar(g, ts, eq.pos, scope)
            IN IF ~eq.ok THEN Fail(eq.err, eq.pos, NoSpan)
               ELSE IF ~value.ok THEN Fail(value.err, value.pos, NoSpan)
               ELSE Ok([ident |-> ident.val, value |-> value.val], value.pos, NoSpan)

\* impl From<MetaValue<Keyword, Value>> for TokenStream
MetaValue_into_TokenStream(node) == PayloadTokens(node.value)

\* to_tokens emitting the keyword before the payload.
MetaValue_to_tokens_WithKeyword(node, stream) ==
    stream \o <<Tok("ident", node.ident.name, <<>>, node.ident.span)>>
           \o PayloadTokens(node.value)

\* impl ToTokens for MetaValue<Keyword, Value>: appends to `stream`
MetaValue_to_tokens(node, stream) == stream \o PayloadTokens(node.value)

\* keyword_span giving the payload's position.
MetaValue_keyword_span_OfValue(node) == node.value.span

\* impl KeywordToken for MetaValue
MetaValue_keyword_span(node) == node.ident.span

\* impl KeywordToken for MetaVoid
MetaVoid_keyword_span(node) == node.ident.span

\* MetaList::parse skipping a `=` between the keyword and the group.
MetaList_parse_SkipEq(k, g, ts, pos, scope) ==
    LET ident == ParseKeyword(k, ts, pos, scope)
        at == IF PeekPunct("=", ts, ident.pos) THEN ident.pos + 1 ELSE ident.pos
        group == ParseGroup("paren", ts, at, scope)
        content == group.val
        fields == ParseTerminated(g, content.ts, 1, content.span, <<>>)
        unexp == DropBuffer(content.ts, fields.pos, NoSpan)
    IN IF ~ident.ok THEN Fail(ident.err, ident.pos, NoSpan)
       ELSE IF ~group.ok THEN Fail(group.err, group.pos, NoSpan)
       ELSE IF ~fields.ok THEN Fail(fields.err, group.pos, unexp)
       ELSE Ok([ident |-> ident.val, fields |-> fields.val], group.pos, unexp)

\* MetaList::parse replacing an item's error by one of its own.
MetaList_parse_OwnError(k, g, ts, pos, scope) ==
    LET ident == ParseKeyword(k, ts, pos, scope)
        group == ParseGroup("paren", ts, ident.pos, scope)
        content == group.val
        fields == ParseTerminated(g, content.ts, 1, content.span, <<>>)
        unexp == DropBuffer(content.ts, fields.pos, NoSpan)
    IN IF ~ident.ok THEN Fail(ident.err, ident.pos, NoSpan)
       ELSE IF ~group.ok THEN Fail(group.err, group.pos, NoSpan)
       ELSE IF ~fields.ok
       THEN Fail([msg |-> "expected", what |-> "list", span |-> content.span, eoi |-> FALSE],
                 group.pos, unexp)
       ELSE Ok([ident |-> ident.val, fields |-> fields.val], group.pos, unexp)

\* impl Parse for MetaList<Keyword, ItemType>, ItemType the grammar named g
MetaList_parse(k, g, ts, pos, scope) ==
    LET ident == ParseKeyword(k, ts, pos, scope)
        group == ParseGroup("paren", ts, ident.pos, scope)
        content == group.val
        fields == ParseTerminated(g, content.ts, 1, content.span, <<>>)
        unexp == DropBuffer(content.ts, fields.pos, NoSpan)
    IN IF ~ident.ok THEN Fail(ident.err, ident.pos, NoSpan)
       ELSE IF ~group.ok THEN Fail(group.err, group.pos, NoSpan)
       ELSE IF ~fields.ok THEN Fail(fields.err, group.pos, unexp)
       ELSE Ok([ident |-> ident.val, fields |-> fields.val], group.pos, unexp)

\* impl KeywordToken for MetaList
MetaList_keyword_span(node) == node.ident.span

\* One arm of MetaEnclosedList::parse: the group with delimiter d, its
\* fields parsed by the grammar named g, as Enclosure::<variant>.
EnclosedArm(ident, variant, d, g, ts, scope) ==
    LET group == ParseGroup(d, ts, ident.pos, scope)
        content == group.val
        fields == ParseTerminated(g, content.ts, 1, content.span, <<>>)
        unexp == DropBuffer(content.ts, fields.pos, NoSpan)
    IN IF ~fields.ok THEN Fail(fields.err, group.pos, unexp)
       ELSE Ok([ident |-> ident.val,
                list |-> [variant |-> variant, fields |-> fields.val]],
               group.pos, unexp)

\* MetaEnclosedList::parse with the braced arm building the other variant
\* from the other item grammar.
MetaEnclosedList_parse_Swapped(k, gp, gb, ts, pos, scope) ==
    LET ident == ParseKeyword(k, ts, pos, scope)
    IN IF ~ident.ok THEN Fail(ident.err, ident.pos, NoSpan)
       ELSE IF PeekGroup("paren", ts, ident.pos)
       THEN EnclosedArm(ident, "Paren", "paren", gp, ts, scope)
       ELSE IF PeekGroup("brace", ts, ident.pos)
       THEN EnclosedArm(ident, "Paren", "brace", gp, ts, scope)
       ELSE Fail(ErrorAt(ts, ident.pos, scope, "expected", "parentheses or curly braces"),
                 ident.pos, NoSpan)

\* impl Parse for MetaEnclosedList<Keyword, ParenItemType, BraceItemType>
MetaEnclosedList_parse(k, gp, gb, ts, pos, scope) ==
    LET ident == ParseKeyword(k, ts, pos, scope)
    IN IF ~ident.ok THEN Fail(ident.err, ident.pos, NoSpan)
       ELSE IF PeekGroup("paren", ts, ident.pos)
       THEN EnclosedArm(ident, "Paren", "paren", gp, ts, scope)
       ELSE IF PeekGroup("brace", ts, ident.pos)
       THEN EnclosedArm(ident, "Brace", "brace", gb, ts, scope)
       ELSE Fail(ErrorAt(ts, ident.pos, scope, "expected", "parentheses or curly braces"),
                 ident.pos, NoSpan)

\* impl KeywordToken for MetaEnclosedList
MetaEnclosedList_keyword_span(node) == node.ident.span

\* impl Parse for IdentPatType
IdentPatType_parse(ts, pos, scope) ==
    LET ident == ParseIdent(ts, pos, scope)
        colon == ParsePunct(":", ts, ident.pos, scope)
        ty == ParseType(ts, colon.pos, scope)
    IN IF ~ident.ok THEN Fail(ident.err, ident.pos, NoSpan)
       ELSE IF ~colon.ok THEN Fail(colon.err, colon.pos, NoSpan)
       ELSE IF ~ty.ok THEN Fail(ty.err, ty.pos, NoSpan)
       ELSE Ok([ident |-> ident.val, ty |-> ty.val], ty.pos, NoSpan)

\* IdentTypeMaybeDefault::parse taking a `=` with no expression after it
\* for no default.
IdentTypeMaybeDefault_parse_DanglingOk(ts, pos, scope) ==
    LET ident == ParseIdent(ts, pos, scope)
        colon == ParsePunct(":", ts, ident.pos, scope)
        ty == ParseType(ts, colon.pos, scope)
        eq == ParsePunct("=", ts, ty.pos, scope)
        expr == ParseExpr(ts, eq.pos, scope)
    IN IF ~ident.ok THEN Fail(ident.err, ident.pos, NoSpan)
       ELSE IF ~colon.ok THEN Fail(colon.err, colon.pos, NoSpan)
       ELSE IF ~ty.ok THEN Fail(ty.err, ty.pos, NoSpan)
       ELSE IF PeekPunct("=", ts, ty.pos) /\ expr.ok
       THEN Ok([ident |-> ident.val, ty |-> ty.val, default |-> <<expr.val>>],
               expr.pos, NoSpan)
       ELSE IF PeekPunct("=", ts, ty.pos)
       THEN Ok([ident |-> ident.val, ty |-> ty.val, default |-> <<>>], eq.pos, NoSpan)
       ELSE Ok([ident |-> ident.val, ty |-> ty.val, default |-> <<>>], ty.pos, NoSpan)

\* impl Parse for IdentTypeMaybeDefault; default is None (<<>>) or Some(<<expr>>)
IdentTypeMaybeDefault_parse(ts, pos, scope) ==
    LET ident == ParseIdent(ts, pos, scope)
        colon == ParsePunct(":", ts, ident.pos, scope)
        ty == ParseType(ts, colon.pos, scope)
        eq == ParsePunct("=", ts, ty.pos, scope)
        expr == ParseExpr(ts, eq.pos, scope)
    IN IF ~ident.ok THEN Fail(ident.err, ident.pos, NoSpan)
       ELSE IF ~colon.ok THEN Fail(colon.err, colon.pos, NoSpan)
       ELSE IF ~ty.ok THEN Fail(ty.err, ty.pos, NoSpan)
       ELSE IF PeekPunct("=", ts, ty.pos)
       THEN IF ~eq.ok THEN Fail(eq.err, eq.pos, NoSpan)
            ELSE IF ~expr.ok THEN Fail(expr.err, expr.pos, NoSpan)
            ELSE Ok([ident |-> ident.val, ty |-> ty.val, default |-> <<expr.val>>],
                    expr.pos, NoSpan)
       ELSE Ok([ident |-> ident.val, ty |-> ty.val, default |-> <<>>], ty.pos, NoSpan)

\* impl Parse for MetaAttrList<P>, P the grammar named g
MetaAttrList_parse(g, ts, pos, scope) ==
    LET group == ParseGroup("paren", ts, pos, scope)
        content == group.val
        fields == ParseTerminated(g, content.ts, 1, content.span, <<>>)
        unexp == DropBuffer(content.ts, fields.pos, NoSpan)
    IN IF ~group.ok THEN Fail(group.err, group.pos, NoSpan)
       ELSE IF ~fields.ok THEN Fail(fields.err, group.pos, unexp)
       ELSE Ok([fields |-> fields.val], group.pos, unexp)

\* MetaAttrList::into_iter
MetaAttrList_into_iter(node) == Fields_into_iter(node.fields)

\* syn::parse2::<T>: T::parse on the whole stream, then the unexpected tokens
\* recorded by dropped buffers, then the tokens left in the stream.
Parse2(r, ts) ==
    IF ~r.ok THEN [ok |-> FALSE, val |-> NoVal, err |-> r.err]
    ELSE IF r.unexp # NoSpan
    THEN [ok |-> FALSE, val |-> NoVal,
          err |-> [msg |-> "unexpected token", what |-> "", span |-> r.unexp[1], eoi |-> FALSE]]
    ELSE IF ~AtEnd(ts, r.pos)
    THEN [ok |-> FALSE, val |-> NoVal,
          err |-> [msg |-> "unexpected token", what |-> "", span |-> ts[r.pos].span, eoi |-> FALSE]]
    ELSE [ok |-> TRUE, val |-> r.val, err |-> NoErr]

-----------------------------------------------------------------------------
(* The state machine: a token stream is parsed as one node type, and the   *)
(* node, when there is one, is then inspected, re-emitted or consumed.     *)

Keywords == {"test", "foo"}
Grammars == {"Lit", "Ident"}

Inputs == GroupInputs \cup KeywordInputs \cup FieldInputs

NoResult == Fail(NoErr, 1, NoSpan)
NoOutcome == [ok |-> FALSE, val |-> NoVal, err |-> NoErr]
NoConv == [by |-> "none", items |-> <<>>]

Init ==
    /\ \E shapes \in Inputs, origin \in Origins : input = Stamp(shapes, origin)
    /\ op = "start"
    /\ kw = ""
    /\ gram = <<>>
    /\ res = NoResult
    /\ out = NoOutcome
    /\ tokens = <<>>
    /\ emits = 0
    /\ kspan = <<>>
    /\ conv = NoConv

Parsed(name, k, g, r) ==
    /\ op = "start"
    /\ op' = name
    /\ kw' = k
    /\ gram' = g
    /\ res' = r
    /\ out' = Parse2(r, input)
    /\ UNCHANGED <<input, tokens, emits, kspan, conv>>

ParseMetaVoid ==
    \E k \in Keywords :
        Parsed("MetaVoid", k, <<>>, MetaVoid_parse(k, input, 1, CallSite))

ParseMetaValue ==
    \E k \in Keywords, g \in Grammars :
        Parsed("MetaValue", k, <<g>>, MetaValue_parse(k, g, input, 1, CallSite))

ParseMetaList ==
    \E k \in Keywords, g \in Grammars :
        Parsed("MetaList", k, <<g>>, MetaList_parse(k, g, input, 1, CallSite))

ParseMetaEnclosedList ==
    \E k \in Keywords, gp \in Grammars, gb \in Grammars :
        Parsed("MetaEnclosedList", k, <<gp, gb>>,
               MetaEnclosedList_parse(k, gp, gb, input, 1, CallSite))

ParseIdentPatType ==
    Parsed("IdentPatType", "", <<>>, IdentPatType_parse(input, 1, CallSite))

ParseIdentTypeMaybeDefault ==
    Parsed("IdentTypeMaybeDefault", "", <<>>, IdentTypeMaybeDefault_parse(input, 1, CallSite))

ParseMetaAttrList ==
    \E g \in Grammars :
        Parsed("MetaAttrList", "", <<g>>, MetaAttrList_parse(g, input, 1, CallSite))

\* A node exists, and has not been moved out of.
HasNode(name) == op = name /\ out.ok /\ conv.by = "none"

KeywordSpanOf(name, span) ==
    /\ HasNode(name)
    /\ kspan = <<>>
    /\ kspan' = <<span>>
    /\ UNCHANGED <<input, op, kw, gram, res, out, tokens, emits, conv>>

KeywordSpanMetaVoid == KeywordSpanOf("MetaVoid", MetaVoid_keyword_span(out.val))
KeywordSpanMetaValue == KeywordSpanOf("MetaValue", MetaValue_keyword_span(out.val))
KeywordSpanMetaList == KeywordSpanOf("MetaList", MetaList_keyword_span(out.val))
KeywordSpanMetaEnclosedList ==
    KeywordSpanOf("MetaEnclosedList", MetaEnclosedList_keyword_span(out.val))

ToTokensMetaValue ==
    /\ HasNode("MetaValue")
    /\ emits < MaxEmit
    /\ tokens' = MetaValue_to_tokens(out.val, tokens)
    /\ emits' = emits + 1
    /\ UNCHANGED <<input, op, kw, gram, res, out, kspan, conv>>

Converted(name, by, items) ==
    /\ HasNode(name)
    /\ conv' = [by |-> by, items |-> items]
    /\ UNCHANGED <<input, op, kw, gram, res, out, tokens, emits, kspan>>

IntoTokenStreamMetaValue ==
    Converted("MetaValue", "TokenStream", MetaValue_into_TokenStream(out.val))

\* impl From<MetaVoid<Keyword>> for ()
IntoUnitMetaVoid == Converted("MetaVoid", "unit", <<>>)

IntoIterMetaAttrList ==
    Converted("MetaAttrList", "into_iter", MetaAttrList_into_iter(out.val))

Next ==
    \/ ParseMetaVoid
    \/ ParseMetaValue
    \/ ParseMetaList
    \/ ParseMetaEnclosedList
    \/ ParseIdentPatType
    \/ ParseIdentTypeMaybeDefault
    \/ ParseMetaAttrList
    \/ KeywordSpanMetaVoid
    \/ KeywordSpanMetaValue
    \/ KeywordSpanMetaList
    \/ KeywordSpanMetaEnclosedList
    \/ ToTokensMetaValue
    \/ IntoTokenStreamMetaValue
    \/ IntoUnitMetaVoid
    \/ IntoIterMetaAttrList

Spec == Init /\ [][Next]_vars

-----------------------------------------------------------------------------
(* What the properties below speak of *)

KeywordLed == op \in {"MetaVoid", "MetaValue", "MetaList", "MetaEnclosedList"}

\* The input starts with the keyword the node was instantiated with.
StartsWithKeyword == Len(input) >= 1 /\ input[1].k = "ident" /\ input[1].s = kw

\* The token is one item of the grammar named g.
Accepts(g, tok) ==
    CASE g = "Lit" -> tok.k = "lit"
      [] g = "Ident" -> tok.k = "ident"

\* Items of the grammar named g separated by commas, with or without a
\* trailing comma.
WellFormed(g, c) ==
    \A i \in 1..Len(c) :
        IF i % 2 = 1 THEN Accepts(g, c[i]) ELSE (c[i].k = "punct" /\ c[i].s = ",")

\* The same without a trailing comma.
Plain(g, c) == WellFormed(g, c) /\ (Len(c) = 0 \/ Len(c) % 2 = 1)

\* The item written as the token tok, parsed on its own.
NodeOf(g, tok) == ParseGrammar(g, <<tok>>, 1, CallSite).val

\* The items written in c, in the order written.
Written(g, c) == [n \in 1..((Len(c) + 1) \div 2) |-> NodeOf(g, c[2 * n - 1])]

\* A node without its source position.
StripSpan(node) == [f \in (DOMAIN node) \ {"span"} |-> node[f]]

\* The state's node type, keyword and grammars applied to another stream.
Reparse(ts) ==
    Parse2(CASE op = "MetaValue" -> MetaValue_parse(kw, gram[1], ts, 1, CallSite)
             [] op = "MetaList" -> MetaList_parse(kw, gram[1], ts, 1, CallSite)
             [] op = "MetaEnclosedList" ->
                    MetaEnclosedList_parse(kw, gram[1], gram[2], ts, 1, CallSite)
             [] op = "MetaAttrList" -> MetaAttrList_parse(gram[1], ts, 1, CallSite),
           ts)

\* The input is K(V) or K = V, V one payload of the value grammar.
IsParenForm ==
    /\ Len(input) = 2 /\ StartsWithKeyword /\ PeekGroup("paren", input, 2)
    /\ Len(input[2].ts) = 1 /\ Accepts(gram[1], input[2].ts[1])
IsAssignForm ==
    /\ Len(input) = 3 /\ StartsWithKeyword /\ PeekPunct("=", input, 2)
    /\ Accepts(gram[1], input[3])

\* The payload tokens V of K(V) or K = V.
PayloadOf(ts) == IF PeekGroup("paren", ts, 2) THEN ts[2].ts ELSE SubSeq(ts, 3, Len(ts))

\* K(V) and K = V for the keyword token and the payload of the input.
ParenFormOf(ts) ==
    Stamp(<<Unstamp(ts)[1], Shape("group", "paren", Unstamp(PayloadOf(ts)))>>, ts[1].span)
AssignFormOf(ts) ==
    Stamp(<<Unstamp(ts)[1], Eq>> \o Unstamp(PayloadOf(ts)), ts[1].span)

ValueNodeShape(node) == [ident |-> node.ident.name, value |-> StripSpan(node.value)]

-----------------------------------------------------------------------------
(* C1: for a keyword K and a payload V the value grammar accepts, K(V) and *)
(* K = V both parse as MetaValue, to nodes with the same keyword and the   *)
(* same payload (positions aside), the payload being V.                    *)
\* C1: K(V) and K = V parse to the same MetaValue node, positions aside.
C1_SyntaxEquivalence ==
    (op = "MetaValue" /\ (IsParenForm \/ IsAssignForm)) =>
        LET paren == Reparse(ParenFormOf(input))
            assign == Reparse(AssignFormOf(input))
        IN /\ out.ok /\ paren.ok /\ assign.ok
           /\ ValueNodeShape(paren.val) = ValueNodeShape(assign.val)
           /\ ValueNodeShape(out.val) = ValueNodeShape(paren.val)
           /\ StripSpan(out.val.value) = StripSpan(NodeOf(gram[1], PayloadOf(input)[1]))

C1_Witness == op = "MetaValue" /\ IsParenForm /\ out.ok /\ gram = <<"Lit">>

-----------------------------------------------------------------------------
(* C2: TokenStream::from(node) and node.to_tokens(empty stream) of a       *)
(* parsed MetaValue are exactly the payload tokens of the input: no        *)
(* keyword, no `=`, no parentheses. Each further to_tokens appends the     *)
(* payload tokens once more.                                               *)
RECURSIVE Repeat(_, _)
Repeat(ts, n) == IF n = 0 THEN <<>> ELSE Repeat(ts, n - 1) \o ts

\* C2: a MetaValue re-emits exactly its payload tokens.
C2_ReemissionFidelity ==
    (op = "MetaValue" /\ out.ok) =>
        /\ conv.by = "TokenStream" => conv.items = PayloadOf(input)
        /\ tokens = Repeat(PayloadOf(input), emits)
        /\ emits = 1 => tokens = PayloadOf(input)

C2_Witness ==
    /\ op = "MetaValue" /\ IsAssignForm /\ conv.by = "TokenStream" /\ emits = 1
    /\ conv.items = <<input[3]>> /\ tokens = <<input[3]>>

-----------------------------------------------------------------------------
(* C3: after the keyword, MetaEnclosedList chooses by the next token       *)
(* alone. A parenthesized group is parsed with the paren item grammar and, *)
(* when its items parse, yields Enclosure::Paren with the written items; a *)
(* braced group likewise with the brace item grammar and Enclosure::Brace; *)
(* any other next token, or none, fails naming both alternatives.          *)
\* C3: the token after the keyword alone picks Paren, Brace or failure.
C3_BracketDisambiguation ==
    (op = "MetaEnclosedList" /\ StartsWithKeyword) =>
        IF PeekGroup("paren", input, 2)
        THEN /\ res.ok <=> WellFormed(gram[1], input[2].ts)
             /\ res.ok => /\ res.val.list.variant = "Paren"
                          /\ Fields_into_iter(res.val.list.fields)
                                 = Written(gram[1], input[2].ts)
        ELSE IF PeekGroup("brace", input, 2)
        THEN /\ res.ok <=> WellFormed(gram[2], input[2].ts)
             /\ res.ok => /\ res.val.list.variant = "Brace"
                          /\ Fields_into_iter(res.val.list.fields)
                                 = Written(gram[2], input[2].ts)
        ELSE /\ ~res.ok /\ ~out.ok
             /\ res.err = ErrorAt(input, 2, CallSite, "expected", "parentheses or curly braces")

\* K{i32, i32} with paren items literals and brace items identifiers.
C3_Witness ==
    /\ op = "MetaEnclosedList" /\ StartsWithKeyword /\ PeekGroup("brace", input, 2)
    /\ gram = <<"Lit", "Ident">> /\ Len(input[2].ts) = 3
    /\ out.ok /\ out.val.list.variant = "Brace"

-----------------------------------------------------------------------------
(* C4: K = (a, b) is rejected by MetaList and by MetaEnclosedList at the   *)
(* `=`, whatever the group holds; no list node is produced.                *)
IsAssignedGroup ==
    /\ Len(input) = 3 /\ StartsWithKeyword /\ PeekPunct("=", input, 2)
    /\ PeekGroup("paren", input, 3)

\* C4: K = (..) is rejected by MetaList and MetaEnclosedList.
C4_DelimiterStrictness ==
    (op \in {"MetaList", "MetaEnclosedList"} /\ IsAssignedGroup) =>
        /\ ~res.ok /\ ~out.ok
        /\ res.val = NoVal /\ out.val = NoVal
        /\ res.err.msg = "expected" /\ res.err.span = input[2].span
        /\ out.err = res.err

\* test = (1u8, 2u8) given to MetaList<_, Lit>
C4_Witness ==
    /\ op = "MetaList" /\ IsAssignedGroup /\ gram = <<"Lit">>
    /\ Plain("Lit", input[3].ts) /\ Len(input[3].ts) = 3
    /\ ~out.ok

-----------------------------------------------------------------------------
(* C5: K(a, ..) with a one payload of the value grammar and further tokens *)
(* after it inside the parentheses is rejected: parsing the stream as a    *)
(* MetaValue never yields a node.                                          *)
IsConfusedAsList ==
    /\ Len(input) = 2 /\ StartsWithKeyword /\ PeekGroup("paren", input, 2)
    /\ Len(input[2].ts) > 1 /\ Accepts(gram[1], input[2].ts[1])

\* C5: K(a, ..) is rejected as a MetaValue, never read as the payload a.
C5_NotConfusedWithList ==
    (op = "MetaValue" /\ IsConfusedAsList) =>
        /\ ~out.ok /\ out.val = NoVal
        /\ out.err.msg = "unexpected token" /\ out.err.span = input[2].ts[2].span

\* test(1u8, 2u8) given to MetaValue<_, Lit>
C5_Witness ==
    /\ op = "MetaValue" /\ IsConfusedAsList /\ gram = <<"Lit">>
    /\ Plain("Lit", input[2].ts) /\ Len(input[2].ts) = 3
    /\ ~out.ok

-----------------------------------------------------------------------------
(* C6: K(i1, .., in) parsed as MetaList, and (i1, .., in) parsed as        *)
(* MetaAttrList, n >= 0, yield the items i1..in in the order written,      *)
(* duplicates kept.                                                        *)
\* C6: a list node holds exactly the written items, in order.
C6_ListContents ==
    /\ (/\ op = "MetaList" /\ Len(input) = 2 /\ StartsWithKeyword
        /\ PeekGroup("paren", input, 2) /\ Plain(gram[1], input[2].ts)) =>
            /\ out.ok
            /\ Fields_into_iter(out.val.fields) = Written(gram[1], input[2].ts)
            /\ Len(Fields_into_iter(out.val.fields)) = (Len(input[2].ts) + 1) \div 2
    /\ (/\ op = "MetaAttrList" /\ Len(input) = 1
        /\ PeekGroup("paren", input, 1) /\ Plain(gram[1], input[1].ts)) =>
            /\ out.ok
            /\ conv.by = "into_iter" =>
                   /\ conv.items = Written(gram[1], input[1].ts)
                   /\ Len(conv.items) = (Len(input[1].ts) + 1) \div 2

\* test(1u8, 1u8): the same item twice
C6_Witness ==
    /\ op = "MetaList" /\ Len(input) = 2 /\ StartsWithKeyword
    /\ PeekGroup("paren", input, 2) /\ Plain("Lit", input[2].ts) /\ gram = <<"Lit">>
    /\ Len(input[2].ts) = 3 /\ input[2].ts[1].s = input[2].ts[3].s
    /\ out.ok /\ Len(Fields_into_iter(out.val.fields)) = 2

-----------------------------------------------------------------------------
(* C7: a list of one or more items followed by one trailing comma parses,  *)
(* and to the same items as the list without the trailing comma, for       *)
(* MetaList, both enclosures of MetaEnclosedList, and MetaAttrList.        *)

\* Where the list's group lies in the input, and the grammar of its items.
GroupAt == IF op = "MetaAttrList" THEN 1 ELSE 2
ItemGrammar ==
    IF op = "MetaEnclosedList" /\ PeekGroup("brace", input, 2) THEN gram[2] ELSE gram[1]
FieldsOf(node) == IF op = "MetaEnclosedList" THEN node.list.fields ELSE node.fields

IsTrailingCommaList ==
    /\ op \in {"MetaList", "MetaEnclosedList", "MetaAttrList"}
    /\ Len(input) = GroupAt
    /\ op # "MetaAttrList" => StartsWithKeyword
    /\ \/ PeekGroup("paren", input, GroupAt)
       \/ op = "MetaEnclosedList" /\ PeekGroup("brace", input, GroupAt)
    /\ Len(input[GroupAt].ts) >= 2 /\ Len(input[GroupAt].ts) % 2 = 0
    /\ WellFormed(ItemGrammar, input[GroupAt].ts)

WithoutTrailingComma ==
    [input EXCEPT ![GroupAt].ts = SubSeq(@, 1, Len(@) - 1)]

\* C7: one trailing comma changes nothing in the items parsed.
C7_TrailingComma ==
    IsTrailingCommaList =>
        LET plain == Reparse(WithoutTrailingComma)
        IN /\ out.ok /\ plain.ok
           /\ Fields_into_iter(FieldsOf(out.val)) = Fields_into_iter(FieldsOf(plain.val))
           /\ Len(Fields_into_iter(FieldsOf(out.val))) = Len(input[GroupAt].ts) \div 2
           /\ op = "MetaEnclosedList" => out.val.list.variant = plain.val.list.variant

\* test{i32, i32,} given to MetaEnclosedList
C7_Witness ==
    /\ IsTrailingCommaList /\ op = "MetaEnclosedList" /\ PeekGroup("brace", input, 2)
    /\ Len(input[2].ts) = 4 /\ out.ok

-----------------------------------------------------------------------------
(* C8: keyword_span() of a parsed MetaVoid, MetaValue, MetaList or         *)
(* MetaEnclosedList is the position of the keyword token at the start of   *)
(* the input, for MetaValue in the K(V) and in the K = V form alike.       *)
KeywordSpanNow ==
    CASE op = "MetaVoid" -> MetaVoid_keyword_span(out.val)
      [] op = "MetaValue" -> MetaValue_keyword_span(out.val)
      [] op = "MetaList" -> MetaList_keyword_span(out.val)
      [] op = "MetaEnclosedList" -> MetaEnclosedList_keyword_span(out.val)

\* C8: keyword_span() is the position of the keyword token.
C8_KeywordPosition ==
    (KeywordLed /\ out.ok) =>
        /\ StartsWithKeyword
        /\ KeywordSpanNow = input[1].span
        /\ kspan # <<>> => kspan = <<input[1].span>>
        /\ \A i \in 2..Len(input) :
               /\ KeywordSpanNow # input[i].span
               /\ \A j \in 1..Len(input[i].ts) : KeywordSpanNow # input[i].ts[j].span

\* test(1u8) with the keyword at position 2
C8_Witness ==
    /\ op = "MetaValue" /\ IsParenForm /\ out.ok
    /\ input[1].span = 2 /\ kspan = <<2>>

-----------------------------------------------------------------------------
(* C9: IdentTypeMaybeDefault. `name: Type` parses with no default and      *)
(* leaves the cursor right after the type; `name: Type = expr` parses with *)
(* the default expr; `name: Type =` fails; a missing name, colon or type   *)
(* fails. A parsed node has no default exactly when no `=` follows the     *)
(* type.                                                                   *)
HasHead ==
    /\ Len(input) >= 3
    /\ input[1].k = "ident" /\ PeekPunct(":", input, 2) /\ input[3].k = "ident"
EqFollows == PeekPunct("=", input, 4)

\* C9: the default of IdentTypeMaybeDefault is absent exactly when no `=`
\* follows the type, and a `=` needs an expression.
C9_OptionalDefault ==
    op = "IdentTypeMaybeDefault" =>
        /\ ~HasHead => (~res.ok /\ ~out.ok)
        /\ (HasHead /\ ~EqFollows) =>
               /\ res.ok /\ res.val.default = <<>> /\ res.pos = 4
               /\ res.val.ident.name = input[1].s /\ res.val.ty.name = input[3].s
               /\ out.ok <=> Len(input) = 3
        /\ (HasHead /\ EqFollows /\ Len(input) = 4) =>
               (~res.ok /\ ~out.ok /\ res.err.eoi /\ res.err.what = "expression")
        /\ (HasHead /\ EqFollows /\ Len(input) = 5 /\ input[5].k \in {"lit", "ident"}) =>
               /\ out.ok
               /\ out.val.default = <<ParseAtom(<<input[5]>>, 1, CallSite).val>>
        /\ (HasHead /\ EqFollows) =>
               /\ res.ok <=> ParseExpr(input, 5, CallSite).ok
               /\ res.ok => res.val.default = <<ParseExpr(input, 5, CallSite).val>>
        /\ res.ok => (res.val.default = <<>> <=> ~EqFollows)

\* foo: foo = 1u8
C9_Witness ==
    /\ op = "IdentTypeMaybeDefault" /\ HasHead /\ EqFollows /\ Len(input) = 5
    /\ out.ok /\ Len(out.val.default) = 1 /\ out.val.default[1].kind = "Expr::Lit"

-----------------------------------------------------------------------------
(* C10: a keyword-led node fails at the first stage that fails, with that  *)
(* stage's error, the cursor left there: the keyword, then the dispatch on *)
(* the next token, then the payload. A list fails at its first item the    *)
(* item grammar rejects, with the error the item grammar gives there, and  *)
(* returns no node.                                                        *)

\* The i-th token of c is where an item is due, and is not one.
BadItemAt(g, c, i) ==
    /\ i \in 1..Len(c) /\ i % 2 = 1
    /\ WellFormed(g, SubSeq(c, 1, i - 1))
    /\ ~Accepts(g, c[i])

IsList == op \in {"MetaList", "MetaEnclosedList", "MetaAttrList"}
HasListGroup ==
    /\ IsList
    /\ op # "MetaAttrList" => StartsWithKeyword
    /\ \/ PeekGroup("paren", input, GroupAt)
       \/ op = "MetaEnclosedList" /\ PeekGroup("brace", input, GroupAt)

\* C10: the first failing stage, or list item, ends the parse with its error.
C10_FailFast ==
    /\ (KeywordLed /\ ~StartsWithKeyword) =>
           /\ res = Fail(ErrorAt(input, 1, CallSite, "expected", kw), 1, NoSpan)
           /\ out.err = res.err /\ ~out.ok
    /\ (op = "MetaValue" /\ StartsWithKeyword
            /\ ~PeekGroup("paren", input, 2) /\ ~PeekPunct("=", input, 2)) =>
           /\ res = Fail(ErrorAt(input, 2, CallSite, "expected", "="), 2, NoSpan)
           /\ out.err = res.err /\ ~out.ok
    /\ (op = "MetaList" /\ StartsWithKeyword /\ ~PeekGroup("paren", input, 2)) =>
           /\ res = Fail(ErrorAt(input, 2, CallSite, "expected", "parentheses"), 2, NoSpan)
           /\ out.err = res.err /\ ~out.ok
    /\ (op = "MetaEnclosedList" /\ StartsWithKeyword
            /\ ~PeekGroup("paren", input, 2) /\ ~PeekGroup("brace", input, 2)) =>
           /\ res = Fail(ErrorAt(input, 2, CallSite, "expected",
                                 "parentheses or curly braces"), 2, NoSpan)
           /\ out.err = res.err /\ ~out.ok
    /\ (op = "MetaValue" /\ StartsWithKeyword /\ PeekPunct("=", input, 2)
            /\ ~(Len(input) >= 3 /\ Accepts(gram[1], input[3]))) =>
           /\ ~res.ok /\ res.val = NoVal /\ res.pos = 3
           /\ res.err = ParseGrammar(gram[1], input, 3, CallSite).err
           /\ out.err = res.err /\ ~out.ok
    /\ (op = "MetaValue" /\ StartsWithKeyword /\ PeekGroup("paren", input, 2)
            /\ ~(Len(input[2].ts) >= 1 /\ Accepts(gram[1], input[2].ts[1]))) =>
           /\ ~res.ok /\ res.val = NoVal
           /\ res.err = ParseGrammar(gram[1], input[2].ts, 1, input[2].span).err
           /\ out.err = res.err /\ ~out.ok
    /\ HasListGroup =>
           \A i \in 1..Len(input[GroupAt].ts) :
               BadItemAt(ItemGrammar, input[GroupAt].ts, i) =>
                   /\ ~res.ok /\ res.val = NoVal
                   /\ res.err = ParseGrammar(ItemGrammar, input[GroupAt].ts, i,
                                             input[GroupAt].span).err
                   /\ res.err.span = input[GroupAt].ts[i].span
                   /\ out.err = res.err /\ ~out.ok /\ out.val = NoVal

\* test(1u8, i32) given to MetaList<_, Lit>: the second item is rejected
C10_Witness ==
    /\ op = "MetaList" /\ HasListGroup /\ gram = <<"Lit">>
    /\ Len(input[2].ts) = 3 /\ BadItemAt("Lit", input[2].ts, 3)
    /\ ~out.ok /\ out.err.what = "literal" /\ out.err.span = input[2].ts[3].span
====
